---- MODULE Spec2Model ----
(***************************************************************************)
(* Model of kubernetes-test-functions/main.go: twelve assertion helpers    *)
(* that read objects of a Kubernetes cluster (or data handed in by the     *)
(* calling test), compare one field with an expectation and report with    *)
(* t.Logf / t.Errorf, or panic.                                            *)
(*                                                                         *)
(* Each action is one whole invocation of one helper.  The state is the    *)
(* cluster the client reads, the objects the calling test holds, the       *)
(* test case's output (log) and failed flag, whether the process has       *)
(* panicked, and a history of the invocations made so far.                 *)
(***************************************************************************)
EXTENDS Integers, Sequences, FiniteSets, TLC

VARIABLES
    cluster,    \* the objects the API server holds
    held,       \* deployment data the calling test holds and hands in
    log,        \* records written to the test case: [level, msg]
    failed,     \* the test case's failed flag (testing.T)
    halted,     \* TRUE once a panic has ended the process
    trace       \* history: one entry per invocation

vars == <<cluster, held, log, failed, halted, trace>>

----------------------------------------------------------------------------
(* Bounds of the model. *)

MaxCalls == 2       \* invocations in one run
MaxCount == 2       \* largest expected count / replica number tried
MaxTime == 1        \* latest reading of the clock

----------------------------------------------------------------------------
(* Strings: %v formatting and substring search. *)

Digit(d) == SubSeq("0123456789", d + 1, d + 1)

RECURSIVE NatToStr(_)
NatToStr(n) == IF n < 10 THEN Digit(n) ELSE NatToStr(n \div 10) \o Digit(n % 10)

\* %v of an integer: decimal, with a leading minus sign when negative.
FormatInt(n) == IF n < 0 THEN "-" \o NatToStr(0 - n) ELSE NatToStr(n)

\* TRUE iff sub occurs in s.
Contains(s, sub) ==
    \E i \in 1..(Len(s) - Len(sub) + 1) : SubSeq(s, i, i + Len(sub) - 1) = sub

----------------------------------------------------------------------------
(* The reporting sink: testing.T as the helpers use it. *)

\* t.Logf: one record, the failed flag untouched, the process goes on.
Logf(msg) ==
    /\ log' = Append(log, [level |-> "Logf", msg |-> msg])
    /\ failed' = failed
    /\ halted' = FALSE

\* Variant: the record is written as by t.Fatalf, which also stops the run.
Fatalf(msg) ==
    /\ log' = Append(log, [level |-> "Errorf", msg |-> msg])
    /\ failed' = TRUE
    /\ halted' = TRUE

\* Variant: the test case is marked failed (t.Fail) with no record written.
FailOnly(msg) ==
    /\ log' = log
    /\ failed' = TRUE
    /\ halted' = FALSE

\* t.Errorf: one record, the test case marked failed, the process goes on.
Errorf(msg) ==
    /\ log' = Append(log, [level |-> "Errorf", msg |-> msg])
    /\ failed' = TRUE
    /\ halted' = FALSE

\* Variant: the error is reported as a failure and the run goes on.
PanicReported ==
    /\ log' = Append(log, [level |-> "Errorf", msg |-> "error"])
    /\ failed' = TRUE
    /\ halted' = FALSE

\* panic(...): the process ends; nothing is written to the test case.
Panic ==
    /\ halted' = TRUE
    /\ UNCHANGED <<log, failed>>

\* The entry an invocation leaves in the history.
Called(fn, args, resp) ==
    trace' = Append(trace, [fn |-> fn, args |-> args, resp |-> resp,
                            before |-> Len(log), after |-> Len(log'),
                            aborted |-> halted'])

CanCall == ~halted /\ Len(trace) < MaxCalls

----------------------------------------------------------------------------
(* The cluster and the API client. *)

Namespaces == {"prod", "dev"}

\* The two deployments of the cluster; the calling test holds a fetched copy
\* of each and hands its annotations and conditions to the helpers.
Jenkins ==
    [name |-> "jenkins", namespace |-> "prod",
     annotations |-> [k \in {"k1"} |-> "ab"],
     conditions |-> << [type |-> "Available", status |-> "True"],
                       [type |-> "Progressing", status |-> "False"],
                       [type |-> "Available", status |-> "False"] >>]

Web ==
    [name |-> "web", namespace |-> "prod",
     annotations |-> [k \in {"k1", "k2"} |-> IF k = "k1" THEN "" ELSE "b"],
     conditions |-> << >>]

\* Access-control objects: one created at time 0, one at time 1.
Namespaced == { [name |-> "a", namespace |-> "prod", creationTimestamp |-> 0],
                [name |-> "b", namespace |-> "prod", creationTimestamp |-> 1] }

ClusterScoped == { [name |-> "a", creationTimestamp |-> 0],
                   [name |-> "b", creationTimestamp |-> 1] }

InitialCluster ==
    [deployments |-> <<Jenkins, Web>>,
     namespaces |-> { [name |-> "prod", phase |-> "Active"],
                      [name |-> "dev", phase |-> "Terminating"] },
     serviceAccounts |-> Namespaced,
     roles |-> Namespaced,
     roleBindings |-> Namespaced,
     clusterRoles |-> ClusterScoped,
     clusterRoleBindings |-> ClusterScoped]

Error == [err |-> TRUE]
\* What the history notes for a helper that calls no collaborator.
NoFetch == [err |-> FALSE]
Ok(obj) == [err |-> FALSE, obj |-> obj]

\* clientset.AppsV1().Deployments(namespace).List: the items of the namespace.
ListDeployments(c, namespace) ==
    SelectSeq(c.deployments, LAMBDA d : d.namespace = namespace)

\* Get by name in a namespace: the object, or a NotFound error.
GetNamespaced(objs, name, namespace) ==
    LET hit == {o \in objs : o.name = name /\ o.namespace = namespace}
    IN  IF hit = {} THEN Error ELSE Ok(CHOOSE o \in hit : TRUE)

\* Get by name of a cluster-scoped object: the object, or a NotFound error.
GetClusterScoped(objs, name) ==
    LET hit == {o \in objs : o.name = name}
    IN  IF hit = {} THEN Error ELSE Ok(CHOOSE o \in hit : TRUE)

SeqToSet(s) == {s[i] : i \in 1..Len(s)}

\* The client's answer to a Get: a transport fault, or what the server holds.
Fetch(fault, found) == IF fault THEN Error ELSE found

----------------------------------------------------------------------------
(* ExpectedDeploymentCount *)

\* The integers tried as expected and actual numbers, one of them negative.
Counts == (0 - 1)..MaxCount

\* Variant: the two numbers are passed to the format in the other order.
DeploymentCountMsgSwapped(ok, namespace, expectedCount, actualCount) ==
    (IF ok THEN "The expected number of Deployments exist in the '"
           ELSE "An unexpected number of Deployments exist in the '")
    \o namespace \o "' namespace.  Expected " \o FormatInt(actualCount)
    \o ", got " \o FormatInt(expectedCount) \o "."

\* The two format strings and their arguments.
DeploymentCountMsg(ok, namespace, expectedCount, actualCount) ==
    (IF ok THEN "The expected number of Deployments exist in the '"
           ELSE "An unexpected number of Deployments exist in the '")
    \o namespace \o "' namespace.  Expected " \o FormatInt(expectedCount)
    \o ", got " \o FormatInt(actualCount) \o "."

ExpectedDeploymentCount ==
    /\ CanCall
    /\ \E namespace \in Namespaces, expectedCount \in Counts, fault \in BOOLEAN :
         LET resp == Fetch(fault, Ok(ListDeployments(cluster, namespace)))
         IN  /\ IF resp.err
                  THEN Panic
                  ELSE LET actualCount == Len(resp.obj)
                       IN  IF actualCount = expectedCount
                             THEN Logf(DeploymentCountMsg(TRUE, namespace,
                                                          expectedCount, actualCount))
                             ELSE Errorf(DeploymentCountMsg(FALSE, namespace,
                                                            expectedCount, actualCount))
             /\ Called("ExpectedDeploymentCount",
                       [namespace |-> namespace, expectedCount |-> expectedCount], resp)
    /\ UNCHANGED <<cluster, held>>

----------------------------------------------------------------------------
(* DeploymentExists *)

DeploymentNames == {"jenkins", "ghost"}

DeploymentExists ==
    /\ CanCall
    /\ \E name \in DeploymentNames, namespace \in Namespaces, fault \in BOOLEAN :
         LET resp == Fetch(fault,
                           GetNamespaced(SeqToSet(cluster.deployments), name, namespace))
         IN  /\ IF resp.err
                  THEN Panic
                  ELSE LET actualName == resp.obj.name
                       IN  IF actualName = name
                             THEN Logf("Jenkins Deployment exists with the expected name.  Expected "
                                       \o name \o ", got " \o actualName \o ".")
                             ELSE Errorf("Jenkins Deployment does not exist with the expected name.  Expected "
                                       \o name \o ", got " \o actualName \o ".")
             /\ Called("DeploymentExists", [name |-> name, namespace |-> namespace], resp)
    /\ UNCHANGED <<cluster, held>>

----------------------------------------------------------------------------
(* AnnotationsEqual *)

AnnotationKeys == {"k1", "k2"}
AnnotationValues == {"", "ab"}

\* Variant: a missing key reads as "<nil>" instead of the zero value.
MapIndexNil(m, key) == IF key \in DOMAIN m THEN m[key] ELSE "<nil>"

\* annotations[name] on a Go map: the zero value "" when the key is missing.
MapIndex(m, key) == IF key \in DOMAIN m THEN m[key] ELSE ""

\* Variant: a missing key is first stored with the zero value in the
\* caller's map, then compared.
AnnotationsEqualInserting ==
    /\ CanCall
    /\ \E d \in 1..Len(held), name \in AnnotationKeys, expectedValue \in AnnotationValues :
         LET annotations == held[d].annotations
             value == MapIndex(annotations, name)
             stored == [k \in DOMAIN annotations \cup {name} |->
                          IF k \in DOMAIN annotations THEN annotations[k] ELSE ""]
         IN  /\ IF expectedValue = value
                  THEN Logf("Annotation " \o name
                            \o " exists with its expected value.  Expected "
                            \o expectedValue \o ", got " \o value \o ".")
                  ELSE Errorf("Annotation " \o name
                            \o " does not exist with its expected value.  Expected "
                            \o expectedValue \o ", got " \o value \o ".")
             /\ Called("AnnotationsEqual",
                       [annotations |-> annotations, name |-> name,
                        expectedValue |-> expectedValue], NoFetch)
             /\ held' = [held EXCEPT ![d].annotations = stored]
    /\ UNCHANGED cluster

AnnotationsEqual ==
    /\ CanCall
    /\ \E d \in 1..Len(held), name \in AnnotationKeys, expectedValue \in AnnotationValues :
         LET annotations == held[d].annotations
             value == MapIndex(annotations, name)
         IN  /\ IF expectedValue = value
                  THEN Logf("Annotation " \o name
                            \o " exists with its expected value.  Expected "
                            \o expectedValue \o ", got " \o value \o ".")
                  ELSE Errorf("Annotation " \o name
                            \o " does not exist with its expected value.  Expected "
                            \o expectedValue \o ", got " \o value \o ".")
             /\ Called("AnnotationsEqual",
                       [annotations |-> annotations, name |-> name,
                        expectedValue |-> expectedValue], NoFetch)
    /\ UNCHANGED <<cluster, held>>

----------------------------------------------------------------------------
(* AnnotationsMatchPattern *)

(* regexp.Compile and MatchString on the fragment of the syntax the model   *)
(* draws patterns from: literal characters, '.', a postfix '*', and '('     *)
(* (which, with no ')' in the alphabet, only ever yields a syntax error).   *)

Char(s, i) == SubSeq(s, i, i)

Patterns == {"b", ".b", "a*", "*a", "("}

CountOf(s, c) == Cardinality({i \in 1..Len(s) : Char(s, i) = c})

\* regexp.Compile returns an error: a '*' with nothing to repeat, a '*' after
\* a '*', or parentheses that do not pair up.
CompileError(p) ==
    \/ \E i \in 1..Len(p) :
         /\ Char(p, i) = "*"
         /\ (i = 1 \/ Char(p, i - 1) \in {"*", "("})
    \/ CountOf(p, "(") # CountOf(p, ")")

\* The pattern from position i on matches s at position j.
RECURSIVE MatchHere(_, _, _, _)
MatchHere(p, i, s, j) ==
    IF i > Len(p) THEN TRUE
    ELSE IF i < Len(p) /\ Char(p, i + 1) = "*"
      THEN \E k \in j..(Len(s) + 1) :
             /\ \A m \in j..(k - 1) : Char(p, i) = "." \/ Char(s, m) = Char(p, i)
             /\ MatchHere(p, i + 2, s, k)
      ELSE /\ j <= Len(s)
           /\ (Char(p, i) = "." \/ Char(s, j) = Char(p, i))
           /\ MatchHere(p, i + 1, s, j + 1)

\* pattern.MatchString(value): the pattern matches somewhere in the value.
MatchString(p, s) == \E j \in 1..(Len(s) + 1) : MatchHere(p, 1, s, j)

AnnotationsMatchPattern ==
    /\ CanCall
    /\ \E d \in 1..Len(held), name \in AnnotationKeys, expectedPattern \in Patterns :
         LET annotations == held[d].annotations
             value == MapIndex(annotations, name)
         IN  /\ IF CompileError(expectedPattern)
                  THEN Panic
                  ELSE IF MatchString(expectedPattern, value)
                    THEN Logf("Annotation " \o name
                              \o " exists and matches its expected pattern.  Expected "
                              \o expectedPattern \o ", got " \o value \o ".")
                    ELSE Errorf("Annotation " \o name
                              \o " does not exist and match its expected pattern.  Expected "
                              \o expectedPattern \o ", got " \o value \o ".")
             /\ Called("AnnotationsMatchPattern",
                       [annotations |-> annotations, name |-> name,
                        expectedPattern |-> expectedPattern], NoFetch)
    /\ UNCHANGED <<cluster, held>>

----------------------------------------------------------------------------
(* ConditionStatusMet *)

ConditionTypes == {"Available", "Progressing", "ReplicaFailure"}
ConditionStatuses == {"True", "False"}

\* Variant: the last entry of the requested type is the one judged.
LastIndex(s) == Len(s)

\* matches[0]: the index the helper reads.
FirstIndex(s) == 1

\* Variant: a missing condition type is reported as a failure.
AbsentReported ==
    /\ log' = Append(log, [level |-> "Errorf", msg |-> "no condition of the type"])
    /\ failed' = TRUE
    /\ halted' = FALSE

\* matches[0] on an empty slice: a run-time panic (index out of range).
IndexPanic == Panic

ConditionStatusMet ==
    /\ CanCall
    /\ \E d \in 1..Len(held), conditionType \in ConditionTypes,
          expectedStatus \in ConditionStatuses :
         LET conditions == held[d].conditions
             matches == SelectSeq(conditions, LAMBDA c : c.type = conditionType)
         IN  /\ IF Len(matches) = 0
                  THEN IndexPanic
                  ELSE LET status == matches[FirstIndex(matches)].status
                       IN  IF status = expectedStatus
                             THEN Logf("Deployment condition type " \o conditionType
                                       \o " has its expected status.  Expected "
                                       \o expectedStatus \o ", got " \o status \o ".")
                             ELSE Errorf("Deployment condition type " \o conditionType
                                       \o " does not have its expected status.  Expected "
                                       \o expectedStatus \o ", got " \o status \o ".")
             /\ Called("ConditionStatusMet",
                       [conditions |-> conditions, conditionType |-> conditionType,
                        expectedStatus |-> expectedStatus], NoFetch)
    /\ UNCHANGED <<cluster, held>>

----------------------------------------------------------------------------
(* ReplicaCountAsExpected *)

Descriptions == {"replicas"}

\* The int32 values tried as expected and actual replicas.
ReplicaCounts == {0 - 1, 0, MaxCount}

ReplicaCountAsExpected ==
    /\ CanCall
    /\ \E expectedReplicas \in ReplicaCounts, actualReplicas \in ReplicaCounts,
          description \in Descriptions :
         /\ IF expectedReplicas = actualReplicas
              THEN Logf("Jenkins Deployment has expected " \o description
                        \o ".  Expected " \o FormatInt(expectedReplicas)
                        \o ", got " \o FormatInt(actualReplicas) \o ".")
              ELSE Errorf("Jenkins Deployment has unexpected " \o description
                        \o ".  Expected " \o FormatInt(expectedReplicas)
                        \o ", got " \o FormatInt(actualReplicas) \o ".")
         /\ Called("ReplicaCountAsExpected",
                   [expectedReplicas |-> expectedReplicas,
                    actualReplicas |-> actualReplicas,
                    description |-> description], NoFetch)
    /\ UNCHANGED <<cluster, held>>

----------------------------------------------------------------------------
(* NamespaceExists *)

NamespaceNames == {"prod", "dev", "ghost"}

NamespaceExists ==
    /\ CanCall
    /\ \E name \in NamespaceNames, fault \in BOOLEAN :
         LET resp == Fetch(fault, GetClusterScoped(cluster.namespaces, name))
         IN  /\ IF resp.err
                  THEN Panic
                  ELSE IF resp.obj.phase = "Active"
                    THEN Logf("Cluster has a namespace named " \o name \o ".")
                    ELSE Errorf("Cluster does not have a namespace named " \o name \o ".")
             /\ Called("NamespaceExists", [name |-> name], resp)
    /\ UNCHANGED <<cluster, held>>

----------------------------------------------------------------------------
(* The five existence checks by creation timestamp. *)

ObjectNames == {"a", "b"}
Times == 0..MaxTime

\* Variant: "not after" in place of "before".
NotAfter(t, u) == t <= u

\* CreationTimestamp.Before(&now): strictly earlier.
Before(t, u) == t < u

\* What the helper has in hand once the fetch is over: the error, or the
\* object together with the reading of the clock taken after the fetch.
WithNow(resp, now) ==
    IF resp.err THEN resp ELSE [err |-> FALSE, obj |-> resp.obj, now |-> now]

ServiceAccountExists ==
    /\ CanCall
    /\ \E name \in ObjectNames, namespace \in Namespaces, fault \in BOOLEAN, now \in Times :
         LET resp == WithNow(Fetch(fault,
                        GetNamespaced(cluster.serviceAccounts, name, namespace)), now)
         IN  /\ IF resp.err
                  THEN Panic
                  ELSE IF Before(resp.obj.creationTimestamp, resp.now)
                    THEN Logf("A ServiceAccount named '" \o name \o "' exists in the '"
                              \o namespace \o "' namespace.")
                    ELSE Errorf("A ServiceAccount named '" \o name
                              \o "' does not exist in the '" \o namespace \o "' namespace.")
             /\ Called("ServiceAccountExists",
                       [name |-> name, namespace |-> namespace], resp)
    /\ UNCHANGED <<cluster, held>>

RoleExists ==
    /\ CanCall
    /\ \E name \in ObjectNames, namespace \in Namespaces, fault \in BOOLEAN, now \in Times :
         LET resp == WithNow(Fetch(fault,
                        GetNamespaced(cluster.roles, name, namespace)), now)
         IN  /\ IF resp.err
                  THEN Panic
                  ELSE IF Before(resp.obj.creationTimestamp, resp.now)
                    THEN Logf("A Role named '" \o name \o "' exists in the '"
                              \o namespace \o "' namespace.")
                    ELSE Errorf("A Role named '" \o name
                              \o "' does not exist in the '" \o namespace \o "' namespace.")
             /\ Called("RoleExists", [name |-> name, namespace |-> namespace], resp)
    /\ UNCHANGED <<cluster, held>>

RoleBindingExists ==
    /\ CanCall
    /\ \E name \in ObjectNames, namespace \in Namespaces, fault \in BOOLEAN, now \in Times :
         LET resp == WithNow(Fetch(fault,
                        GetNamespaced(cluster.roleBindings, name, namespace)), now)
         IN  /\ IF resp.err
                  THEN Panic
                  ELSE IF Before(resp.obj.creationTimestamp, resp.now)
                    THEN Logf("A RoleBinding object named '" \o name \o "' exists in the '"
                              \o namespace \o "' namespace.")
                    ELSE Errorf("A RoleBinding object named '" \o name
                              \o "' does not exist in the '" \o namespace \o "' namespace.")
             /\ Called("RoleBindingExists", [name |-> name, namespace |-> namespace], resp)
    /\ UNCHANGED <<cluster, held>>

ClusterRoleExists ==
    /\ CanCall
    /\ \E name \in ObjectNames, fault \in BOOLEAN, now \in Times :
         LET resp == WithNow(Fetch(fault,
                        GetClusterScoped(cluster.clusterRoles, name)), now)
         IN  /\ IF resp.err
                  THEN Panic
                  ELSE IF Before(resp.obj.creationTimestamp, resp.now)
                    THEN Logf("A ClusterRole named '" \o name \o "' exists.")
                    ELSE Errorf("A ClusterRole named '" \o name \o "' does not exist.")
             /\ Called("ClusterRoleExists", [name |-> name], resp)
    /\ UNCHANGED <<cluster, held>>

ClusterRoleBindingExists ==
    /\ CanCall
    /\ \E name \in ObjectNames, fault \in BOOLEAN, now \in Times :
         LET resp == WithNow(Fetch(fault,
                        GetClusterScoped(cluster.clusterRoleBindings, name)), now)
         IN  /\ IF resp.err
                  THEN Panic
                  ELSE IF Before(resp.obj.creationTimestamp, resp.now)
                    THEN Logf("A ClusterRoleBinding object named '" \o name \o "' exists.")
                    ELSE Errorf("A ClusterRoleBinding object named '" \o name
                              \o "' does not exist.")
             /\ Called("ClusterRoleBindingExists", [name |-> name], resp)
    /\ UNCHANGED <<cluster, held>>

----------------------------------------------------------------------------
(* The state machine. *)

Init ==
    /\ cluster = InitialCluster
    /\ held = <<Jenkins, Web>>
    /\ log = << >>
    /\ failed = FALSE
    /\ halted = FALSE
    /\ trace = << >>

Next ==
    \/ ExpectedDeploymentCount
    \/ DeploymentExists
    \/ AnnotationsEqual
    \/ AnnotationsMatchPattern
    \/ ConditionStatusMet
    \/ ReplicaCountAsExpected
    \/ NamespaceExists
    \/ ServiceAccountExists
    \/ RoleExists
    \/ RoleBindingExists
    \/ ClusterRoleExists
    \/ ClusterRoleBindingExists

Spec == Init /\ [][Next]_vars

----------------------------------------------------------------------------
(* Reading the history. *)

Calls == 1..Len(trace)

\* The records invocation e wrote to the test case.
Emitted(e) == SubSeq(log, e.before + 1, e.after)

Reported(e, level) == Len(Emitted(e)) = 1 /\ Emitted(e)[1].level = level
Succeeded(e) == Reported(e, "Logf")
Mismatched(e) == Reported(e, "Errorf")
Silent(e) == e.after = e.before

\* The message of the one record of e.
Msg(e) == Emitted(e)[1].msg

FetchingChecks ==
    {"ExpectedDeploymentCount", "DeploymentExists", "NamespaceExists",
     "ServiceAccountExists", "RoleExists", "RoleBindingExists",
     "ClusterRoleExists", "ClusterRoleBindingExists"}

TimestampChecks ==
    {"ServiceAccountExists", "RoleExists", "RoleBindingExists",
     "ClusterRoleExists", "ClusterRoleBindingExists"}

\* The entries of a conditions list that have the given type, in list order.
OfType(conditions, type) ==
    SelectSeq(conditions, LAMBDA c : c.type = type)

\* The invocation met an environment failure: a fetch error, a pattern that
\* does not compile, or no condition of the requested type.
EnvironmentFailure(e) ==
    \/ e.resp.err
    \/ e.fn = "AnnotationsMatchPattern" /\ CompileError(e.args.expectedPattern)
    \/ e.fn = "ConditionStatusMet"
         /\ Len(OfType(e.args.conditions, e.args.conditionType)) = 0

\* The step is one invocation: it adds one entry to the history.
IsCall == Len(trace') = Len(trace) + 1
New == trace'[Len(trace')]

----------------------------------------------------------------------------
(* C1 *)

\* C1 as stated: every invocation, whatever the inputs and the collaborator's
\* answers, writes exactly one record to the test case.
C1_ExactlyOneRecordAlways ==
    \A i \in Calls : trace[i].after = trace[i].before + 1

\* C1 as amended: an invocation never writes more than one record; it writes
\* exactly one unless it aborts on an environment failure, and then it
\* writes none.  Every record of the test case comes from an invocation.
C1_OneRecordUnlessAborted ==
    /\ \A i \in Calls :
         /\ trace[i].aborted <=> EnvironmentFailure(trace[i])
         /\ trace[i].after = trace[i].before + (IF trace[i].aborted THEN 0 ELSE 1)
         /\ trace[i].before = (IF i = 1 THEN 0 ELSE trace[i - 1].after)
    /\ Len(log) = (IF trace = << >> THEN 0 ELSE trace[Len(trace)].after)

\* A run with a mismatch reported in one record, then an abort with none.
C1_Witness ==
    /\ Len(trace) = 2
    /\ Mismatched(trace[1])
    /\ trace[2].aborted /\ Silent(trace[2])

----------------------------------------------------------------------------
(* C2 *)

\* C2: when the API client returns an error to one of the eight fetching
\* checks, the check aborts the process, writes neither a success nor a
\* failure record, and leaves the failed flag as it was.
C2_FetchErrorAborts ==
    [][(IsCall /\ New.fn \in FetchingChecks /\ New.resp.err)
         => (halted' /\ New.aborted /\ log' = log /\ failed' = failed)]_vars

\* A fetch error met after an earlier mismatch: the flag stays set, no record.
C2_Witness ==
    /\ Len(trace) = 2
    /\ Mismatched(trace[1])
    /\ trace[2].fn \in FetchingChecks /\ trace[2].resp.err
    /\ halted /\ failed /\ Len(log) = 1

----------------------------------------------------------------------------
(* C3 *)

\* C3: a mismatch marks the test case failed and does not halt the process;
\* later checks still run and write their own record; the failed mark is
\* never cleared; only an environment failure halts, and after it nothing
\* more is written.
C3_MismatchContinuesAbortStops ==
    [][/\ ~halted
       /\ IsCall
       /\ failed => failed'
       /\ halted' <=> EnvironmentFailure(New)
       /\ ~EnvironmentFailure(New) =>
            /\ Len(log') = Len(log) + 1
            /\ log'[Len(log')].level = "Errorf" => (failed' /\ ~halted')
            /\ log'[Len(log')].level = "Logf" => failed' = failed
       /\ EnvironmentFailure(New) => log' = log]_vars

\* A mismatch, then a later check that ran and succeeded, the mark still set.
C3_Witness ==
    /\ Len(trace) = 2
    /\ Mismatched(trace[1])
    /\ Succeeded(trace[2])
    /\ failed /\ ~halted

----------------------------------------------------------------------------
(* C4 *)

\* C4: ExpectedDeploymentCount (the list call succeeding) and
\* ReplicaCountAsExpected report success when expected = actual and failure
\* otherwise, and the message carries the expected and the actual value.
C4_CountsCompared ==
    \A i \in Calls :
      LET e == trace[i] IN
        /\ (e.fn = "ExpectedDeploymentCount" /\ ~e.resp.err) =>
             /\ Succeeded(e) <=> e.args.expectedCount = Len(e.resp.obj)
             /\ Mismatched(e) <=> e.args.expectedCount # Len(e.resp.obj)
             /\ Contains(Msg(e), "Expected " \o ToString(e.args.expectedCount)
                                 \o ", got " \o ToString(Len(e.resp.obj)) \o ".")
        /\ e.fn = "ReplicaCountAsExpected" =>
             /\ Succeeded(e) <=> e.args.expectedReplicas = e.args.actualReplicas
             /\ Mismatched(e) <=> e.args.expectedReplicas # e.args.actualReplicas
             /\ Contains(Msg(e), "Expected " \o ToString(e.args.expectedReplicas)
                                 \o ", got " \o ToString(e.args.actualReplicas) \o ".")

\* Two deployments listed where one was expected: a failure naming both.
C4_Witness ==
    \E i \in Calls :
      /\ trace[i].fn = "ExpectedDeploymentCount"
      /\ ~trace[i].resp.err
      /\ trace[i].args.expectedCount = 1
      /\ Len(trace[i].resp.obj) = 2
      /\ Mismatched(trace[i])
      /\ Contains(Msg(trace[i]), "Expected 1, got 2.")

----------------------------------------------------------------------------
(* C5 *)

\* C5: AnnotationsEqual never aborts; it reports success iff the expected
\* string equals the value looked up, a missing key counting as the empty
\* string; the message carries both values.
C5_AnnotationsEqualByLookup ==
    \A i \in Calls :
      LET e == trace[i]
          m == e.args.annotations
          looked == IF e.args.name \in DOMAIN m THEN m[e.args.name] ELSE ""
      IN  e.fn = "AnnotationsEqual" =>
            /\ ~e.aborted
            /\ Succeeded(e) <=> e.args.expectedValue = looked
            /\ Mismatched(e) <=> e.args.expectedValue # looked
            /\ Contains(Msg(e), "Expected " \o e.args.expectedValue
                                \o ", got " \o looked \o ".")

\* A missing key: success with "" expected, and failure with "ab" expected.
C5_Witness ==
    /\ Len(trace) = 2
    /\ \A i \in Calls :
         /\ trace[i].fn = "AnnotationsEqual"
         /\ trace[i].args.name \notin DOMAIN trace[i].args.annotations
    /\ trace[1].args.expectedValue = "" /\ Succeeded(trace[1])
    /\ trace[2].args.expectedValue = "ab" /\ Mismatched(trace[2])

----------------------------------------------------------------------------
(* C6 *)

\* C6: with exactly one condition of the requested type, ConditionStatusMet
\* reports success iff its status equals the expected status, and failure
\* otherwise; with none (the empty list included) it aborts and writes no
\* record.
C6_OneOrNoCondition ==
    \A i \in Calls :
      LET e == trace[i]
          ofType == OfType(e.args.conditions, e.args.conditionType)
      IN  e.fn = "ConditionStatusMet" =>
            /\ Len(ofType) = 1 =>
                 /\ ~e.aborted
                 /\ Succeeded(e) <=> ofType[1].status = e.args.expectedStatus
                 /\ Mismatched(e) <=> ofType[1].status # e.args.expectedStatus
            /\ Len(ofType) = 0 => (e.aborted /\ Silent(e))

\* One condition of the type judged, then an abort on the empty list.
C6_Witness ==
    /\ Len(trace) = 2
    /\ \A i \in Calls : trace[i].fn = "ConditionStatusMet"
    /\ Len(OfType(trace[1].args.conditions, trace[1].args.conditionType)) = 1
    /\ Succeeded(trace[1])
    /\ trace[2].args.conditions = << >>
    /\ trace[2].aborted /\ halted /\ Len(log) = 1

----------------------------------------------------------------------------
(* C7 *)

\* C7: AnnotationsMatchPattern aborts without a record when the pattern does
\* not compile, whatever the map and key; with a pattern that compiles it
\* reports success iff the pattern matches the value looked up ("" for a
\* missing key), and failure otherwise.
C7_PatternMatched ==
    \A i \in Calls :
      LET e == trace[i]
          m == e.args.annotations
          looked == IF e.args.name \in DOMAIN m THEN m[e.args.name] ELSE ""
      IN  e.fn = "AnnotationsMatchPattern" =>
            IF CompileError(e.args.expectedPattern)
              THEN e.aborted /\ Silent(e)
              ELSE /\ ~e.aborted
                   /\ Succeeded(e) <=> MatchString(e.args.expectedPattern, looked)
                   /\ Mismatched(e) <=> ~MatchString(e.args.expectedPattern, looked)

\* "b" found inside "ab" is a success; then "(" aborts.
C7_Witness ==
    /\ Len(trace) = 2
    /\ \A i \in Calls : trace[i].fn = "AnnotationsMatchPattern"
    /\ trace[1].args.expectedPattern = "b"
    /\ trace[1].args.name \in DOMAIN trace[1].args.annotations
    /\ trace[1].args.annotations[trace[1].args.name] = "ab"
    /\ Succeeded(trace[1])
    /\ trace[2].args.expectedPattern = "("
    /\ trace[2].aborted /\ Len(log) = 1

----------------------------------------------------------------------------
(* C8 *)

\* C8: for the five timestamp checks, a successful fetch reports success iff
\* the creation timestamp is strictly before the time read after the fetch;
\* a timestamp equal to or later than that time reports failure.
C8_StrictlyBeforeNow ==
    \A i \in Calls :
      LET e == trace[i] IN
        e.fn \in TimestampChecks =>
          IF e.resp.err
            THEN "now" \notin DOMAIN e.resp
            ELSE /\ Succeeded(e) <=> e.resp.obj.creationTimestamp < e.resp.now
                 /\ Mismatched(e) <=> e.resp.obj.creationTimestamp >= e.resp.now

\* An object created exactly at the time read: a failure.
C8_Witness ==
    \E i \in Calls :
      /\ trace[i].fn \in TimestampChecks
      /\ ~trace[i].resp.err
      /\ trace[i].resp.obj.creationTimestamp = trace[i].resp.now
      /\ Mismatched(trace[i])

----------------------------------------------------------------------------
(* C9 *)

\* Two invocations of the same check with the same arguments and the same
\* collaborator answers wrote the same records and ended the same way.
SameCallSameOutcome ==
    \A i, j \in Calls :
      (/\ trace[i].fn = trace[j].fn
       /\ trace[i].args = trace[j].args
       /\ trace[i].resp = trace[j].resp)
        => (/\ Emitted(trace[i]) = Emitted(trace[j])
            /\ trace[i].aborted = trace[j].aborted)

\* C9: no invocation changes a cluster object or the data the caller hands
\* in, and what an invocation writes depends only on its arguments and the
\* collaborator's answers, not on the invocations before it.
C9_ReadOnlyAndStateless ==
    /\ [][cluster' = cluster /\ held' = held]_vars
    /\ []SameCallSameOutcome

\* The same check with the same arguments run twice, once before and once
\* after the test case was marked failed by it.
C9_Witness ==
    /\ Len(trace) = 2
    /\ trace[1].fn = "AnnotationsEqual"
    /\ trace[1].args.name \notin DOMAIN trace[1].args.annotations
    /\ trace[2].fn = trace[1].fn
    /\ trace[2].args = trace[1].args
    /\ Mismatched(trace[2])
    /\ cluster = InitialCluster /\ held = <<Jenkins, Web>>

----------------------------------------------------------------------------
(* C10 *)

\* C10: with two or more conditions of the requested type, ConditionStatusMet
\* judges the first of them in list order, whatever the later ones say, and
\* writes a single record.
C10_FirstOfSeveralJudged ==
    \A i \in Calls :
      LET e == trace[i]
          ofType == OfType(e.args.conditions, e.args.conditionType)
      IN  (e.fn = "ConditionStatusMet" /\ Len(ofType) >= 2) =>
            /\ ~e.aborted
            /\ Len(Emitted(e)) = 1
            /\ Succeeded(e) <=> ofType[1].status = e.args.expectedStatus
            /\ Mismatched(e) <=> ofType[1].status # e.args.expectedStatus

\* Two conditions of the type that disagree; the first one's status decides.
C10_Witness ==
    \E i \in Calls :
      LET e == trace[i]
          ofType == OfType(e.args.conditions, e.args.conditionType)
      IN  /\ e.fn = "ConditionStatusMet"
          /\ Len(ofType) = 2
          /\ ofType[1].status # ofType[2].status
          /\ e.args.expectedStatus = ofType[1].status
          /\ Succeeded(e)

====
